---- MODULE Spec2Model ----
(***************************************************************************)
(* Incremental arXiv crawler (src/src/1.fetch_paper_arxiv.py) and its      *)
(* older non-incremental variant (src/scripts/1.fetch_paper_arxiv.py).     *)
(*                                                                         *)
(* Time is counted in seconds.  A datetime is an integer; an optional      *)
(* datetime is a record [some, t].  The text of a timestamp inside a file  *)
(* is a record describing the string (TimeStr below), so that writing and  *)
(* reading a file are conversions and not the identity.                    *)
(***************************************************************************)
EXTENDS Integers, Sequences, FiniteSets, TLC

(***************************************************************************)
(* Bounds of the model.                                                    *)
(***************************************************************************)
\* number of runs of the script in one behaviour
MaxRuns == 2
\* number of distinct papers the upstream knows
NumIds == 3
\* length of the prefix of CATEGORIES_TO_FETCH that is modelled
NumCats == 2
\* number of runs in the behaviours checked for termination
FairRuns == 1

Ids == 1..NumIds

(***************************************************************************)
(* Time.                                                                   *)
(***************************************************************************)
Minute == 60
Day == 24 * 60 * Minute
\* all instants of the model are offsets from Base, so that none is negative
Base == 10 * Day

\* timedelta(days=d), timedelta(minutes=m)
timedelta_days(d) == d * Day
timedelta_minutes(m) == m * Minute

\* strftime("%Y%m%d%H%M"): the instant truncated to its minute
strftime_minute(t) == (t \div Minute) * Minute
\* strftime("%Y%m%d0000"): the instant truncated to its day, at 00:00
strftime_day0000(t) == (t \div Day) * Day
\* strftime("%Y%m%d2359"): the day of the instant, at 23:59
strftime_day2359(t) == (t \div Day) * Day + 23 * 60 * Minute + 59 * Minute
\* strftime("%Y%m%d"): the day number
strftime_day(t) == t \div Day

\* datetime | None
None == [some |-> FALSE, t |-> 0]
Some(t) == [some |-> TRUE, t |-> t]

Max(a, b) == IF a >= b THEN a ELSE b

(***************************************************************************)
(* Text of a timestamp, as found in a state file.                          *)
(*   k    "empty"   the empty string                                       *)
(*        "blank"   only white space                                       *)
(*        "garbage" text that datetime.fromisoformat rejects               *)
(*        "iso"     an ISO-8601 timestamp: wall-clock reading `wall`,      *)
(*                  with zone suffix tz                                    *)
(*   tz   "naive"   no suffix;  "Z";  "offset": +hh:mm of `off` seconds    *)
(***************************************************************************)
TimeStr(k, wall, tz, off) == [k |-> k, wall |-> wall, tz |-> tz, off |-> off]
EmptyStr == TimeStr("empty", 0, "naive", 0)

\* dt.astimezone(timezone.utc).isoformat(): "....+00:00"
isoformat(t) == TimeStr("iso", t, "offset", 0)

\* str.strip()
strip(s) == IF s.k = "blank" THEN EmptyStr ELSE s

\* datetime.fromisoformat(raw.replace("Z", "+00:00")); a naive result is taken
\* as UTC; then astimezone(utc).  None stands for the caught exception.
fromisoformat_utc(s) ==
    IF s.k # "iso" THEN None
    ELSE IF s.tz = "naive" THEN Some(s.wall)
    ELSE IF s.tz = "Z" THEN Some(s.wall)
    ELSE Some(s.wall - s.off)

(***************************************************************************)
(* JSON values of the fields of a state file.                              *)
(*   t  "absent"  key missing        "null"                                *)
(*      "str"     a string, s its text                                     *)
(*      "list"    an array, items its elements                             *)
(*      "falsy"   0, false, {}       "truthy"  another number, true, {..}  *)
(* An element of "ids" is [id, pad]: the identifier (0: a blank string)    *)
(* and whether it carries surrounding white space.                         *)
(***************************************************************************)
Field(t, s, items) == [t |-> t, s |-> s, items |-> items]
Absent == Field("absent", EmptyStr, <<>>)
JNull == Field("null", EmptyStr, <<>>)
JStr(s) == Field("str", s, <<>>)
JList(items) == Field("list", EmptyStr, items)
JFalsy == Field("falsy", EmptyStr, <<>>)
JTruthy == Field("truthy", EmptyStr, <<>>)

\* Python truth value of a JSON value
Truthy(v) ==
    CASE v.t = "str" -> v.s.k # "empty"
      [] v.t = "list" -> v.items # <<>>
      [] v.t = "truthy" -> TRUE
      [] OTHER -> FALSE

\* str(v or ""): a string stays itself, anything else prints as text that is
\* no timestamp
StrOrEmpty(v) ==
    IF ~Truthy(v) THEN EmptyStr
    ELSE IF v.t = "str" THEN v.s
    ELSE TimeStr("garbage", 0, "naive", 0)

(***************************************************************************)
(* Content of a state file.                                                *)
(*   kind "missing"   no such file                                         *)
(*        "invalid"   not JSON (also: a file cut short while written)      *)
(*        "falsy"     JSON null, 0, "", [], false                          *)
(*        "nonobject" another JSON value that is no object                 *)
(*        "object"    a JSON object with the fields below                  *)
(***************************************************************************)
FileContent(kind, ids, latest, last, updated) ==
    [kind |-> kind, ids |-> ids, latest_published_at |-> latest,
     last_crawl_at |-> last, updated_at |-> updated]
MissingFile == FileContent("missing", Absent, Absent, Absent, Absent)
InvalidFile == FileContent("invalid", Absent, Absent, Absent, Absent)

(***************************************************************************)
(* Crawl State Store.  A load returns [raised, ...]: raised is TRUE when   *)
(* the call ends in an exception that the function does not catch.         *)
(***************************************************************************)
\* the set of a list's elements after  str(i).strip()  , blanks dropped
RECURSIVE StripIds(_)
StripIds(items) ==
    IF items = <<>> THEN {}
    ELSE (IF Head(items).id = 0 THEN {} ELSE {Head(items).id})
         \cup StripIds(Tail(items))

\* payload = json.load(f) or {}  : what the later payload.get(...) meets
\*   "none"    the function has already returned (missing file, bad JSON)
\*   "dict"    a dict ({} for a falsy document)
\*   "nodict"  a truthy value without .get
PayloadKind(file) ==
    CASE file.kind \in {"missing", "invalid"} -> "none"
      [] file.kind = "nonobject" -> "nodict"
      [] OTHER -> "dict"

\* payload.get(key) of a dict payload
PayloadGet(file, key) ==
    IF file.kind # "object" THEN Absent
    ELSE CASE key = "ids" -> file.ids
           [] key = "latest_published_at" -> file.latest_published_at
           [] key = "last_crawl_at" -> file.last_crawl_at
           [] OTHER -> Absent

LoadSeenResult(raised, ids, latest) ==
    [raised |-> raised, ids |-> ids, latest |-> latest]

load_seen_state(file) ==
    CASE PayloadKind(file) = "none" -> LoadSeenResult(FALSE, {}, None)
      [] PayloadKind(file) = "nodict" -> LoadSeenResult(TRUE, {}, None)
      [] OTHER ->
           LET got == PayloadGet(file, "ids")
               raw_ids == IF Truthy(got) /\ got.t = "list" THEN got.items
                          ELSE <<>>
               raw_latest == strip(StrOrEmpty(PayloadGet(file, "latest_published_at")))
               latest_dt == IF raw_latest.k = "empty" THEN None
                            ELSE fromisoformat_utc(raw_latest)
           IN  LoadSeenResult(FALSE, StripIds(raw_ids), latest_dt)

LoadLastResult(raised, at) == [raised |-> raised, at |-> at]

load_last_crawl_at(file) ==
    CASE PayloadKind(file) = "none" -> LoadLastResult(FALSE, None)
      [] PayloadKind(file) = "nodict" -> LoadLastResult(TRUE, None)
      [] OTHER ->
           LET raw == strip(StrOrEmpty(PayloadGet(file, "last_crawl_at")))
           IN  IF raw.k = "empty" THEN LoadLastResult(FALSE, None)
               ELSE LoadLastResult(FALSE, fromisoformat_utc(raw))

\* sorted(seen_ids) as the list of JSON strings
RECURSIVE SortedItems(_)
SortedItems(S) ==
    IF S = {} THEN <<>>
    ELSE LET m == CHOOSE x \in S : \A y \in S : x <= y
         IN  <<[id |-> m, pad |-> FALSE]>> \o SortedItems(S \ {m})

\* the document save_seen_state writes; at is datetime.now() of the write
SeenPayload(seen, latest, at) ==
    FileContent("object",
                JList(SortedItems(seen)),
                JStr(IF latest.some THEN isoformat(latest.t) ELSE EmptyStr),
                Absent,
                JStr(isoformat(at)))

save_seen_state_LatestOnly(seen, latest, at) == SeenPayload({}, latest, at)

save_seen_state(seen, latest, at) == SeenPayload(seen, latest, at)

save_last_crawl_at_Minute(at_time) ==
    FileContent("object", Absent, Absent,
                JStr(isoformat(strftime_minute(at_time))), Absent)

\* the document save_last_crawl_at writes
save_last_crawl_at(at_time) ==
    FileContent("object", Absent, Absent, JStr(isoformat(at_time)), Absent)

(***************************************************************************)
(* Configuration Resolver.                                                 *)
(* The configuration file:                                                 *)
(*   kind "missing" | "noyaml" (PyYAML cannot be imported) | "invalid"     *)
(*        | "nondict" (a document that is no mapping) | "dict"             *)
(*   arxiv_paper_setting, crawler: a section                               *)
(*     t  "absent" | "falsy" (null, "", 0, [], {}) | "map" | "nonmap"      *)
(*     days_window: a value                                                *)
(*       t "none" (absent or null) | "int" | "intstr" (text of an integer) *)
(*         | "float" (n is the value truncated toward zero, as int() does) *)
(*         | "garbage" (anything int() rejects), n the integer             *)
(***************************************************************************)
DaysVal(t, n) == [t |-> t, n |-> n]
NoDays == DaysVal("none", 0)
Section(t, dw) == [t |-> t, days_window |-> dw]
NoSection == Section("absent", NoDays)
ConfigFile(kind, paper, crawler) ==
    [kind |-> kind, arxiv_paper_setting |-> paper, crawler |-> crawler]
MissingConfig == ConfigFile("missing", NoSection, NoSection)

\* load_config(): the dict the caller gets ({} is a dict without sections)
load_config(cfg) ==
    IF cfg.kind = "dict" THEN cfg
    ELSE ConfigFile("dict", NoSection, NoSection)

\* (config or {}).get(key) or {}
SectionOrEmpty(sec) ==
    IF sec.t \in {"absent", "falsy"} THEN Section("map", NoDays) ELSE sec

ResolveResult(raised, d) == [raised |-> raised, days |-> d]

\* int(value); max(days, 1); except: max(default_days, 1)
IntOrDefault(value, default_days) ==
    IF value.t \in {"int", "intstr", "float"} THEN Max(value.n, 1)
    ELSE Max(default_days, 1)

resolve_days_window(cfg, default_days) ==
    LET config == load_config(cfg)
        paper_setting == SectionOrEmpty(config.arxiv_paper_setting)
        crawler_setting == SectionOrEmpty(config.crawler)
    IN  IF paper_setting.t = "nonmap" THEN ResolveResult(TRUE, 0)
        ELSE IF paper_setting.days_window.t # "none"
             THEN ResolveResult(FALSE, IntOrDefault(paper_setting.days_window, default_days))
        ELSE IF crawler_setting.t = "nonmap" THEN ResolveResult(TRUE, 0)
        ELSE ResolveResult(FALSE, IntOrDefault(crawler_setting.days_window, default_days))

(***************************************************************************)
(* Window Resolver (lines 139-159 of fetch_all_domains_metadata_robust).   *)
(* latest, last_crawl: optional datetimes; the result is start_date.       *)
(***************************************************************************)
WindowBase_NoLast(latest, last_crawl, d, end_date) ==
    IF latest.some THEN latest.t
    ELSE end_date - timedelta_days(d)

WindowBase(latest, last_crawl, d, end_date) ==
    IF latest.some THEN latest.t
    ELSE IF last_crawl.some THEN last_crawl.t
    ELSE end_date - timedelta_days(d)

WindowClamp_None(start, d, end_date) == start

WindowClamp(start, d, end_date) == Max(start, end_date - timedelta_days(d))

WindowNonEmpty_Keep(start, end_date) == start

WindowNonEmpty(start, end_date) ==
    IF start >= end_date THEN end_date - timedelta_minutes(1) ELSE start

ResolveWindow(latest, last_crawl, d, end_date) ==
    WindowNonEmpty(WindowClamp(WindowBase(latest, last_crawl, d, end_date), d, end_date),
                   end_date)

(***************************************************************************)
(* The upstream metadata source.                                           *)
(* Paper i was published (submitted) at PubOf(i) and is listed in the      *)
(* categories CatsOf(i); paper 1 is cross-listed in every category.  A     *)
(* query  cat:c* AND submittedDate:[lo TO hi]  (both stamps given to the   *)
(* minute) returns the papers of c submitted inside the window that exist  *)
(* at the time of the query, newest first; the iteration may fail after    *)
(* any number of results, and consecutive pages may overlap, which repeats *)
(* a result.                                                               *)
(***************************************************************************)
PubOf(i) ==
    CASE i = 1 -> Base + 10
      [] i = 2 -> Base + 30
      [] i = 3 -> Base + 70
      [] OTHER -> Base + Day + 10 * i

CatsOf(i) == IF i = 1 THEN 1..NumCats ELSE {((i - 2) % NumCats) + 1}

\* the instants at which a run may sample datetime.now()
Instants == {Base + 30, Base + 70, Base + 100, Base + Day + 50}

\* arxiv.Result as far as the crawler reads it
Result(i) == [id |-> i, published |-> PubOf(i)]

Matches(c, lo, hi, now) ==
    {i \in Ids : /\ c \in CatsOf(i)
                 /\ lo <= strftime_minute(PubOf(i))
                 /\ strftime_minute(PubOf(i)) <= hi
                 /\ PubOf(i) <= now}

\* sort_by SubmittedDate, sort_order Descending
RECURSIVE SortDescending(_)
SortDescending(S) ==
    IF S = {} THEN <<>>
    ELSE LET m == CHOOSE x \in S : \A y \in S : PubOf(x) >= PubOf(y)
         IN  <<Result(m)>> \o SortDescending(S \ {m})

\* the results the iterator yields: the first k of the list L, the last of
\* them twice when two pages overlap
Yielded(L, k, overlap) ==
    LET pre == SubSeq(L, 1, k)
    IN  IF overlap /\ k > 0 THEN pre \o <<L[k]>> ELSE pre

\* the papers of the list the iterator did not get to
NotYielded(L, k) == {L[j].id : j \in (k + 1)..Len(L)}

(***************************************************************************)
(* unique_papers: a dict, kept as the sequence of its items in insertion   *)
(* order.                                                                  *)
(***************************************************************************)
DictHas(d, key) == \E j \in 1..Len(d) : d[j].key = key

DictSet(d, key, value) ==
    IF DictHas(d, key)
    THEN [j \in 1..Len(d) |-> IF d[j].key = key THEN [key |-> key, value |-> value]
                              ELSE d[j]]
    ELSE Append(d, [key |-> key, value |-> value])

\* list(unique_papers.values())
DictValues(d) == [j \in 1..Len(d) |-> d[j].value]

\* paper_dict, as far as the claims read it
PaperDict(r) == [id |-> r.id, published |-> r.published]

(***************************************************************************)
(* Body of the result loop (lines 195-228): st holds seen_ids,             *)
(* unique_papers and max_published_new.                                    *)
(***************************************************************************)
LoopState(seen, papers, maxpub) ==
    [seen_ids |-> seen, unique_papers |-> papers, max_published_new |-> maxpub]

LoopBody_NoSeenCheck(st, r) ==
    IF DictHas(st.unique_papers, r.id) THEN st
    ELSE LoopState(st.seen_ids \cup {r.id},
                   DictSet(st.unique_papers, r.id, PaperDict(r)),
                   IF ~st.max_published_new.some \/ r.published > st.max_published_new.t
                   THEN Some(r.published) ELSE st.max_published_new)

LoopBody_NoDedup(st, r) ==
    LoopState(st.seen_ids \cup {r.id},
              Append(st.unique_papers, [key |-> r.id, value |-> PaperDict(r)]),
              IF ~st.max_published_new.some \/ r.published > st.max_published_new.t
              THEN Some(r.published) ELSE st.max_published_new)

LoopBody_NoSeenAdd(st, r) ==
    IF r.id \in st.seen_ids THEN st
    ELSE IF DictHas(st.unique_papers, r.id) THEN st
    ELSE LoopState(st.seen_ids,
                   DictSet(st.unique_papers, r.id, PaperDict(r)),
                   IF ~st.max_published_new.some \/ r.published > st.max_published_new.t
                   THEN Some(r.published) ELSE st.max_published_new)

LoopBody(st, r) ==
    IF r.id \in st.seen_ids THEN st
    ELSE IF DictHas(st.unique_papers, r.id) THEN st
    ELSE LoopState(st.seen_ids \cup {r.id},
                   DictSet(st.unique_papers, r.id, PaperDict(r)),
                   IF ~st.max_published_new.some \/ r.published > st.max_published_new.t
                   THEN Some(r.published) ELSE st.max_published_new)

\* for r in client.results(search): ...
RECURSIVE RunLoop(_, _)
RunLoop(st, results) ==
    IF results = <<>> THEN st
    ELSE RunLoop(LoopBody(st, Head(results)), Tail(results))

\* the older variant's loop body (scripts, lines 72-93): no seen-ledger
LegacyLoopBody(papers, r) ==
    IF DictHas(papers, r.id) THEN papers
    ELSE DictSet(papers, r.id, PaperDict(r))

RECURSIVE LegacyRunLoop(_, _)
LegacyRunLoop(papers, results) ==
    IF results = <<>> THEN papers
    ELSE LegacyRunLoop(LegacyLoopBody(papers, Head(results)), Tail(results))

(***************************************************************************)
(* State.                                                                  *)
(***************************************************************************)
VARIABLES
    clock,                \* the latest reading of datetime.now()
    config,               \* content of config.yaml
    seenFile,             \* content of archive/arxiv_seen.json
    crawlFile,            \* content of archive/crawl_state.json
    outFiles,             \* day number |-> content of that day's batch file
    pc,                   \* position of the running script, "idle" between runs
    variant,              \* which copy of the script is deployed: "src" or "scripts"
    end_date, start_date, days,
    output_file,          \* the parameter output_file of the run, None when not given
    seen_ids, latest_published_at,
    unique_papers, max_published_new,
    cat,                  \* index of the next category of CATEGORIES_TO_FETCH
    \* history, not read by the program
    runs,                 \* number of runs started
    outcome,              \* how the last run ended: "none", "returned", "raised"
    raisedIn,             \* the call whose exception ended the last run, or "none"
    queried,              \* the categories queried in this run, in order
    loaded,               \* seen_ids as loaded at the start of the run
    returned,             \* ids the upstream has yielded in this run
    missed,               \* ids of a failed query's list not yielded in this run
    failed,               \* categories whose query failed in this run
    prev,                 \* summary of the run before, if it returned
    emittedPast,          \* ids emitted by the earlier runs, as long as each
                          \* run has returned (emptied when a run raises)
    call                  \* the last call of resolve_days_window made on its
                          \* own: its argument and what it gave

vars == <<clock, config, seenFile, crawlFile, outFiles, pc, variant,
          end_date, start_date, days, output_file, seen_ids,
          latest_published_at, unique_papers, max_published_new, cat,
          runs, outcome, raisedIn, queried, loaded, returned, missed, failed, prev,
          emittedPast, call>>

files == <<seenFile, crawlFile, outFiles>>
locals == <<end_date, start_date, days, output_file, seen_ids,
            latest_published_at, unique_papers, max_published_new, cat>>
runHistory == <<loaded, returned, missed, failed>>

\* CATEGORIES_TO_FETCH, by index
CATEGORIES_TO_FETCH == 1..NumCats

\* resolve_days_window(1)
DefaultDays == 1
\* the older script's entry point: fetch_all_domains_metadata_robust(days=3)
LegacyDays == 3

\* the default path of the batch file: archive/<YYYYMMDD>/raw/arxiv_papers_<YYYYMMDD>.json
OutputPath(at) == strftime_day(at)

OutDays == {OutputPath(t) : t \in Instants}

\* a path given as output_file (no day of the model has this number)
ExplicitPath == 0
OutPaths == OutDays \cup {ExplicitPath}

\* lines 249-256: the path the batch file is written to
ResolveOutputFile_DefaultOnly(output_arg, at) == OutputPath(at)

ResolveOutputFile(output_arg, at) ==
    IF output_arg.some THEN output_arg.t ELSE OutputPath(at)
NoOutFile == [kind |-> "missing", papers |-> <<>>]
OutFile(papers) == [kind |-> "json", papers |-> papers]
CutOutFile == [kind |-> "invalid", papers |-> <<>>]

\* no call of resolve_days_window on its own has been made
NoCall == [done |-> FALSE, default_days |-> 0, raised |-> FALSE, days |-> 0]

NoPrev == [valid |-> FALSE, start |-> 0, end |-> 0, empty |-> TRUE,
           returned |-> {}, failed |-> FALSE, missed |-> {}, latest |-> None]

Keys(d) == {d[j].key : j \in 1..Len(d)}

\* the category loop without a failure, from category c on
RECURSIVE RunCategories(_, _, _, _, _)
RunCategories(c, st, lo, hi, now) ==
    IF c > NumCats THEN st
    ELSE RunCategories(c + 1,
                       RunLoop(st, SortDescending(Matches(c, lo, hi, now))),
                       lo, hi, now)

\* A first run of src, at FirstRunAt, on an empty state and with no failure:
\* its window and what its loop collects.
FirstRunAt == Base + 70
FirstRunStart == ResolveWindow(None, None, DefaultDays, FirstRunAt)
FirstRun == RunCategories(1, LoopState({}, <<>>, None),
                          strftime_minute(FirstRunStart),
                          strftime_minute(FirstRunAt), FirstRunAt)

\* a deployment that has not run yet
InitFresh ==
    /\ clock = Base
    /\ variant \in {"src", "scripts"}
    /\ seenFile = MissingFile
    /\ crawlFile = MissingFile
    /\ outFiles = [d \in OutPaths |-> NoOutFile]
    /\ end_date = Base
    /\ start_date = Base
    /\ seen_ids = {}
    /\ unique_papers = <<>>
    /\ max_published_new = None
    /\ cat = 1
    /\ outcome = "none"
    /\ queried = <<>>
    /\ returned = {}
    /\ prev = NoPrev
    /\ emittedPast = {}

\* a deployment of src whose first run (FirstRun) has returned
InitAfterFirstRun ==
    /\ clock = FirstRunAt
    /\ variant = "src"
    /\ seenFile = save_seen_state(FirstRun.seen_ids, FirstRun.max_published_new,
                                  FirstRunAt)
    /\ crawlFile = save_last_crawl_at(FirstRunAt)
    /\ outFiles = [d \in OutPaths |->
                     IF d = OutputPath(FirstRunAt)
                     THEN OutFile(DictValues(FirstRun.unique_papers))
                     ELSE NoOutFile]
    /\ end_date = FirstRunAt
    /\ start_date = FirstRunStart
    /\ seen_ids = FirstRun.seen_ids
    /\ unique_papers = FirstRun.unique_papers
    /\ max_published_new = FirstRun.max_published_new
    /\ cat = NumCats + 1
    /\ outcome = "returned"
    /\ queried = [c \in 1..NumCats |-> c]
    /\ returned = FirstRun.seen_ids
    /\ prev = [valid |-> TRUE, start |-> FirstRunStart, end |-> FirstRunAt,
               empty |-> FALSE, returned |-> FirstRun.seen_ids,
               failed |-> FALSE, missed |-> {}, latest |-> None]
    /\ emittedPast = FirstRun.seen_ids

Init ==
    /\ config = MissingConfig
    /\ call = NoCall
    /\ output_file = None
    /\ pc = "idle"
    /\ days = DefaultDays
    /\ latest_published_at = None
    /\ runs = 0
    /\ raisedIn = "none"
    /\ loaded = {}
    /\ missed = {}
    /\ failed = {}
    /\ (InitFresh \/ InitAfterFirstRun)

(***************************************************************************)
(* fetch_all_domains_metadata_robust() of src, lines 139-169: sample now,  *)
(* load the state, resolve the window.  An exception that escapes a load   *)
(* ends the run.                                                           *)
(***************************************************************************)
\* the first of the calls of lines 140-147 that raises, or "none"
FirstRaise(seen, d, last) ==
    IF seen.raised THEN "load_seen_state"
    ELSE IF d.raised THEN "resolve_days_window"
    ELSE IF last.raised THEN "load_last_crawl_at"
    ELSE "none"

\* days_arg, output_arg: the parameters days and output_file, None when not
\* given
StartRun(now, days_arg, output_arg) ==
    /\ pc = "idle"
    /\ variant = "src"
    /\ runs < MaxRuns
    /\ now >= clock
    /\ clock' = now
    /\ runs' = runs + 1
    /\ LET seen == load_seen_state(seenFile)
           d == IF days_arg.some THEN ResolveResult(FALSE, days_arg.t)
                ELSE IF seen.raised THEN ResolveResult(FALSE, DefaultDays)
                ELSE resolve_days_window(config, DefaultDays)
           last == IF seen.raised \/ d.raised \/ seen.latest.some
                   THEN LoadLastResult(FALSE, None)
                   ELSE load_last_crawl_at(crawlFile)
       IN  IF FirstRaise(seen, d, last) # "none"
           THEN /\ pc' = "idle"
                /\ outcome' = "raised"
                /\ raisedIn' = FirstRaise(seen, d, last)
                /\ prev' = NoPrev
                /\ emittedPast' = {}
                /\ UNCHANGED <<locals, queried, runHistory>>
           ELSE /\ pc' = "fetch"
                /\ outcome' = "none"
                /\ raisedIn' = "none"
                /\ end_date' = now
                /\ seen_ids' = seen.ids
                /\ latest_published_at' = seen.latest
                /\ days' = d.days
                /\ start_date' = ResolveWindow(seen.latest, last.at, d.days, now)
                /\ output_file' = output_arg
                /\ unique_papers' = <<>>
                /\ max_published_new' = None
                /\ cat' = 1
                /\ queried' = <<>>
                /\ loaded' = seen.ids
                /\ returned' = {}
                /\ missed' = {}
                /\ failed' = {}
                /\ UNCHANGED <<prev, emittedPast>>
    /\ UNCHANGED <<call, config, files, variant>>

(***************************************************************************)
(* One pass of the category loop (lines 178-240): the query of category    *)
(* cat returns the list of S; the iterator yields k results and then       *)
(* either ends (k is the whole list) or raises, which the loop catches.    *)
(***************************************************************************)
\* where the run goes after category c: the except clause (lines 235-238)
\* swallows the failure, and the for loop goes on or ends
AfterCategory_Abort(c, fails) ==
    IF fails THEN "idle" ELSE IF c = NumCats THEN "output" ELSE "fetch"

AfterCategory_SkipLast(c, fails) ==
    IF c >= NumCats - 1 THEN "output" ELSE "fetch"

AfterCategory(c, fails) == IF c = NumCats THEN "output" ELSE "fetch"

FetchCategory(k, fails, overlap) ==
    /\ pc = "fetch"
    /\ cat \in CATEGORIES_TO_FETCH
    /\ \E L \in {SortDescending(Matches(cat, strftime_minute(start_date),
                                        strftime_minute(end_date), clock))} :
         /\ k <= Len(L)
         /\ ~fails => k = Len(L)
         /\ \E st \in {RunLoop(LoopState(seen_ids, unique_papers,
                                         max_published_new),
                               Yielded(L, k, overlap))} :
           /\ seen_ids' = st.seen_ids
           /\ unique_papers' = st.unique_papers
           /\ max_published_new' = st.max_published_new
           /\ returned' = returned \cup {L[j].id : j \in 1..k}
           /\ missed' = IF fails THEN missed \cup NotYielded(L, k) ELSE missed
           /\ failed' = IF fails THEN failed \cup {cat} ELSE failed
    /\ queried' = Append(queried, cat)
    /\ cat' = cat + 1
    /\ pc' = AfterCategory(cat, fails)
    /\ UNCHANGED <<call, clock, config, files, variant, end_date, start_date, days,
                   output_file,
                   latest_published_at, runs, outcome, raisedIn, loaded, prev,
                   emittedPast>>

(***************************************************************************)
(* Lines 243-263: the batch file is written when there is something to     *)
(* write.                                                                  *)
(***************************************************************************)
WriteOutput ==
    /\ pc = "output"
    /\ outFiles' = IF Len(unique_papers) > 0
                   THEN [outFiles EXCEPT ![ResolveOutputFile(output_file, end_date)] =
                            OutFile(DictValues(unique_papers))]
                   ELSE outFiles
    /\ pc' = "save_seen"
    /\ UNCHANGED <<call, clock, config, seenFile, crawlFile, variant, locals, runs,
                   outcome, raisedIn, queried, runHistory, prev, emittedPast>>

\* the exception of the call `where` is caught and the run goes on
Raised_Swallowed(where) ==
    /\ pc' = IF where = "write_output" THEN "save_seen" ELSE "idle"
    /\ outcome' = IF where = "write_output" THEN "none" ELSE "raised"
    /\ raisedIn' = where
    /\ emittedPast' = {}
    /\ prev' = NoPrev

\* the run ends in an exception of the call `where`
Raised(where) ==
    /\ pc' = "idle"
    /\ outcome' = "raised"
    /\ raisedIn' = where
    /\ emittedPast' = {}
    /\ prev' = NoPrev

\* open() or json.dump() fails: the file is left as it was or cut short
WriteOutputFails(cut) ==
    /\ pc = "output"
    /\ Len(unique_papers) > 0
    /\ outFiles' = IF cut
                   THEN [outFiles EXCEPT ![ResolveOutputFile(output_file, end_date)] =
                            CutOutFile]
                   ELSE outFiles
    /\ Raised("write_output")
    /\ UNCHANGED <<call, clock, config, seenFile, crawlFile, variant, locals, runs,
                   queried, runHistory>>

SavedLatest_EndDate == IF max_published_new.some THEN max_published_new
                       ELSE Some(end_date)

\* lines 264-267
SavedLatest == IF max_published_new.some THEN max_published_new
               ELSE latest_published_at

SaveSeen ==
    /\ pc = "save_seen"
    /\ seenFile' = save_seen_state(seen_ids, SavedLatest, clock)
    /\ pc' = "save_last"
    /\ UNCHANGED <<call, clock, config, crawlFile, outFiles, variant, locals, runs,
                   outcome, raisedIn, queried, runHistory, prev, emittedPast>>

SaveSeenFails(cut) ==
    /\ pc = "save_seen"
    /\ seenFile' = IF cut THEN InvalidFile ELSE seenFile
    /\ Raised("save_seen_state")
    /\ UNCHANGED <<call, clock, config, crawlFile, outFiles, variant, locals, runs,
                   queried, runHistory>>

\* line 268, and the return
SaveLast ==
    /\ pc = "save_last"
    /\ crawlFile' = save_last_crawl_at(end_date)
    /\ pc' = "idle"
    /\ outcome' = "returned"
    /\ emittedPast' = emittedPast \cup Keys(unique_papers)
    /\ prev' = [valid |-> TRUE, start |-> start_date, end |-> end_date,
                empty |-> unique_papers = <<>>,
                returned |-> returned, failed |-> failed # {},
                missed |-> missed \ seen_ids,
                latest |-> latest_published_at]
    /\ UNCHANGED <<call, clock, config, seenFile, outFiles, variant, locals, runs,
                   raisedIn, queried, runHistory>>

SaveLastFails(cut) ==
    /\ pc = "save_last"
    /\ crawlFile' = IF cut THEN InvalidFile ELSE crawlFile
    /\ Raised("save_last_crawl_at")
    /\ UNCHANGED <<call, clock, config, seenFile, outFiles, variant, locals, runs,
                   queried, runHistory>>

(***************************************************************************)
(* The older script (scripts/1.fetch_paper_arxiv.py): a window of whole    *)
(* days, no state files.                                                   *)
(***************************************************************************)
LegacyStartRun(now) ==
    /\ pc = "idle"
    /\ variant = "scripts"
    /\ runs < MaxRuns
    /\ now >= clock
    /\ clock' = now
    /\ runs' = runs + 1
    /\ pc' = "legacy_fetch"
    /\ outcome' = "none"
    /\ raisedIn' = "none"
    /\ queried' = <<>>
    /\ end_date' = now
    /\ days' = LegacyDays
    /\ start_date' = now - timedelta_days(LegacyDays)
    /\ output_file' = None
    /\ unique_papers' = <<>>
    /\ cat' = 1
    /\ returned' = {}
    /\ missed' = {}
    /\ failed' = {}
    /\ UNCHANGED <<call, config, files, variant, seen_ids, latest_published_at,
                   max_published_new, loaded, prev, emittedPast>>

LegacyFetchCategory(k, fails, overlap) ==
    /\ pc = "legacy_fetch"
    /\ cat \in CATEGORIES_TO_FETCH
    /\ \E L \in {SortDescending(Matches(cat, strftime_day0000(start_date),
                                        strftime_day2359(end_date), clock))} :
           /\ k <= Len(L)
           /\ ~fails => k = Len(L)
           /\ unique_papers' = LegacyRunLoop(unique_papers, Yielded(L, k, overlap))
           /\ returned' = returned \cup {L[j].id : j \in 1..k}
           /\ missed' = IF fails THEN missed \cup NotYielded(L, k) ELSE missed
           /\ failed' = IF fails THEN failed \cup {cat} ELSE failed
    /\ queried' = Append(queried, cat)
    /\ cat' = cat + 1
    /\ pc' = IF cat = NumCats THEN "legacy_output" ELSE "legacy_fetch"
    /\ UNCHANGED <<call, clock, config, files, variant, end_date, start_date, days,
                   output_file,
                   seen_ids, latest_published_at, max_published_new, runs,
                   outcome, raisedIn, loaded, prev, emittedPast>>

LegacyWriteOutput ==
    /\ pc = "legacy_output"
    /\ outFiles' = IF Len(unique_papers) > 0
                   THEN [outFiles EXCEPT ![OutputPath(clock)] =
                            OutFile(DictValues(unique_papers))]
                   ELSE outFiles
    /\ pc' = "idle"
    /\ outcome' = "returned"
    /\ UNCHANGED <<call, clock, config, seenFile, crawlFile, variant, locals, runs,
                   raisedIn, queried, runHistory, prev, emittedPast>>

LegacyWriteOutputFails(cut) ==
    /\ pc = "legacy_output"
    /\ Len(unique_papers) > 0
    /\ outFiles' = IF cut THEN [outFiles EXCEPT ![OutputPath(clock)] = CutOutFile]
                   ELSE outFiles
    /\ pc' = "idle"
    /\ outcome' = "raised"
    /\ raisedIn' = "write_output"
    /\ UNCHANGED <<call, clock, config, seenFile, crawlFile, variant, locals, runs,
                   queried, runHistory, prev, emittedPast>>

Next ==
    \/ \E now \in Instants : StartRun(now, None, None)
    \/ \E k \in 0..NumIds, fails, overlap \in BOOLEAN :
         FetchCategory(k, fails, overlap)
    \/ WriteOutput
    \/ \E cut \in BOOLEAN : WriteOutputFails(cut)
    \/ SaveSeen
    \/ \E cut \in BOOLEAN : SaveSeenFails(cut)
    \/ SaveLast
    \/ \E cut \in BOOLEAN : SaveLastFails(cut)
    \/ \E now \in Instants : LegacyStartRun(now)
    \/ \E k \in 0..NumIds, fails, overlap \in BOOLEAN :
         LegacyFetchCategory(k, fails, overlap)
    \/ LegacyWriteOutput
    \/ \E cut \in BOOLEAN : LegacyWriteOutputFails(cut)

Spec == Init /\ [][Next]_vars

(***************************************************************************)
(* The start of a run on arbitrary files: what lines 139-159 do with every *)
(* content a state file can have.                                          *)
(***************************************************************************)
\* 2024-06-10T00:00Z is Base; the run samples now at one of
StartNows == {Base, Base + 30}

\* instants found in the files: half a day before Base, long before, the
\* same minute, a day ahead
StartTimes == {Base - Day \div 2, Base - 5 * Day, Base - 20, Base + Day}

ZoneOffset == 8 * 60 * Minute

\* the ISO texts of an instant: +00:00, Z, no zone, +08:00
IsoTexts(t) ==
    {isoformat(t),
     TimeStr("iso", t, "Z", 0),
     TimeStr("iso", t, "naive", 0),
     TimeStr("iso", t + ZoneOffset, "offset", ZoneOffset)}

TimeFields ==
    {Absent, JNull, JFalsy, JTruthy, JList(<<[id |-> 1, pad |-> FALSE]>>),
     JStr(EmptyStr), JStr(TimeStr("blank", 0, "naive", 0)),
     JStr(TimeStr("garbage", 0, "naive", 0))}
    \cup {JStr(x) : x \in UNION {IsoTexts(t) : t \in StartTimes}}

IdsFields ==
    {Absent, JNull, JTruthy, JStr(TimeStr("garbage", 0, "naive", 0)), JList(<<>>),
     JList(<<[id |-> 1, pad |-> FALSE], [id |-> 2, pad |-> TRUE]>>),
     JList(<<[id |-> 0, pad |-> TRUE], [id |-> 1, pad |-> FALSE],
             [id |-> 1, pad |-> TRUE]>>)}

NonObjectFiles ==
    {MissingFile, InvalidFile,
     FileContent("falsy", Absent, Absent, Absent, Absent),
     FileContent("nonobject", Absent, Absent, Absent, Absent)}

SeenFiles ==
    NonObjectFiles
    \cup {FileContent("object", i, l, Absent, Absent) :
             i \in IdsFields, l \in TimeFields}

CrawlFiles ==
    NonObjectFiles
    \cup {FileContent("object", Absent, Absent, l, Absent) : l \in TimeFields}

StartConfigs ==
    {MissingConfig,
     ConfigFile("dict", Section("map", DaysVal("int", 3)), NoSection)}

\* the parameter days: not given, 1, 3, and the overrides 0 and -2
StartDaysArgs == {None, Some(1), Some(3), Some(0), Some(0 - 2)}

InitStart ==
    /\ config \in StartConfigs
    /\ call = NoCall
    /\ output_file = None
    /\ seenFile \in SeenFiles
    /\ crawlFile \in CrawlFiles
    /\ variant = "src"
    /\ pc = "idle"
    /\ days = DefaultDays
    /\ latest_published_at = None
    /\ runs = 0
    /\ raisedIn = "none"
    /\ loaded = {}
    /\ missed = {}
    /\ failed = {}
    /\ clock = Base
    /\ outFiles = [d \in OutPaths |-> NoOutFile]
    /\ end_date = Base
    /\ start_date = Base
    /\ seen_ids = {}
    /\ unique_papers = <<>>
    /\ max_published_new = None
    /\ cat = 1
    /\ outcome = "none"
    /\ queried = <<>>
    /\ returned = {}
    /\ prev = NoPrev
    /\ emittedPast = {}

NextStart == \E now \in StartNows, d \in StartDaysArgs : StartRun(now, d, None)

SpecStart == InitStart /\ [][NextStart]_vars

(***************************************************************************)
(* The script runs as one sequential process: a step that can be taken is  *)
(* taken, given that every upstream query ends (client.results returns or  *)
(* raises after its num_retries) and every write returns or raises.        *)
(***************************************************************************)
\* the steps of a run under way (a run is started from outside)
RunStep ==
    \/ \E k \in 0..NumIds, fails, overlap \in BOOLEAN :
         FetchCategory(k, fails, overlap)
    \/ WriteOutput
    \/ \E cut \in BOOLEAN : WriteOutputFails(cut)
    \/ SaveSeen
    \/ \E cut \in BOOLEAN : SaveSeenFails(cut)
    \/ SaveLast
    \/ \E cut \in BOOLEAN : SaveLastFails(cut)
    \/ \E k \in 0..NumIds, fails, overlap \in BOOLEAN :
         LegacyFetchCategory(k, fails, overlap)
    \/ LegacyWriteOutput
    \/ \E cut \in BOOLEAN : LegacyWriteOutputFails(cut)

Fairness == WF_vars(RunStep)

\* the fair behaviours are followed over FairRuns runs of a deployment
NextFair ==
    \/ \E now \in Instants : runs < FairRuns /\ StartRun(now, None, None)
    \/ \E now \in Instants : runs < FairRuns /\ LegacyStartRun(now)
    \/ RunStep

SpecFair == Init /\ [][NextFair]_vars /\ Fairness

(***************************************************************************)
(* resolve_days_window() called on its own, with any default, on every     *)
(* shape of config.yaml.                                                   *)
(***************************************************************************)
\* values of a days_window key: absent or null, integers, integer text,
\* 2.7, text that is no integer
ConfigDaysVals ==
    {NoDays, DaysVal("int", 0 - 2), DaysVal("int", 0), DaysVal("int", 2),
     DaysVal("intstr", 0), DaysVal("intstr", 5), DaysVal("float", 2),
     DaysVal("garbage", 0)}

ConfigSections ==
    {Section("absent", NoDays), Section("falsy", NoDays), Section("nonmap", NoDays)}
    \cup {Section("map", v) : v \in ConfigDaysVals}

ConfigFiles ==
    {ConfigFile(k, NoSection, NoSection) :
        k \in {"missing", "noyaml", "invalid", "nondict"}}
    \cup {ConfigFile("dict", p, c) : p, c \in ConfigSections}

DefaultArgs == {0, 1, 3}

InitConfig ==
    /\ config \in ConfigFiles
    /\ call = NoCall
    /\ output_file = None
    /\ seenFile = MissingFile
    /\ crawlFile = MissingFile
    /\ variant = "src"
    /\ pc = "idle"
    /\ days = DefaultDays
    /\ latest_published_at = None
    /\ runs = 0
    /\ raisedIn = "none"
    /\ loaded = {}
    /\ missed = {}
    /\ failed = {}
    /\ clock = Base
    /\ outFiles = [d \in OutPaths |-> NoOutFile]
    /\ end_date = Base
    /\ start_date = Base
    /\ seen_ids = {}
    /\ unique_papers = <<>>
    /\ max_published_new = None
    /\ cat = 1
    /\ outcome = "none"
    /\ queried = <<>>
    /\ returned = {}
    /\ prev = NoPrev
    /\ emittedPast = {}

\* resolve_days_window(default_days), and what the caller gets
CallResolveDays(default_days) ==
    /\ ~call.done
    /\ \E r \in {resolve_days_window(config, default_days)} :
         call' = [done |-> TRUE, default_days |-> default_days,
                  raised |-> r.raised, days |-> r.days]
    /\ UNCHANGED <<clock, config, files, pc, variant, locals, runs, outcome,
                   raisedIn, queried, runHistory, prev, emittedPast>>

NextConfig == \E d \in DefaultArgs : CallResolveDays(d)

SpecConfig == InitConfig /\ [][NextConfig]_vars

(***************************************************************************)
(* fetch_all_domains_metadata_robust() of src called with or without an     *)
(* explicit output_file.                                                   *)
(***************************************************************************)
OutputArgs == {None, Some(ExplicitPath)}

\* the runs sample now on two days: before paper 3 is published, and a day
\* later, when the window still reaches back to the minute of papers 1 and 2
OutNows == {Base + 30, Base + Day + 50}

InitOut == Init /\ variant = "src"

NextOut ==
    \/ \E now \in OutNows, out \in OutputArgs : StartRun(now, None, out)
    \/ \E k \in 0..NumIds, fails, overlap \in BOOLEAN :
         FetchCategory(k, fails, overlap)
    \/ WriteOutput
    \/ \E cut \in BOOLEAN : WriteOutputFails(cut)
    \/ SaveSeen
    \/ \E cut \in BOOLEAN : SaveSeenFails(cut)
    \/ SaveLast
    \/ \E cut \in BOOLEAN : SaveLastFails(cut)

SpecOut == InitOut /\ [][NextOut]_vars

(***************************************************************************)
(* Claims.  A run of src is under way while pc is not "idle"; between runs *)
(* the variables of the run keep what the last run left in them.           *)
(***************************************************************************)
InRun == variant = "src" /\ pc # "idle"

\* number of records of the output collection that carry the id
Copies(id) ==
    Cardinality({j \in 1..Len(unique_papers) : unique_papers[j].value.id = id})

\* C1: an id of the seen-ledger loaded at the start of a run is never in
\* that run's output collection, also when the upstream returns it again
\* inside the window; and over runs that have all returned (every state write
\* succeeded) no id is emitted by two runs.
C1_NoReemission ==
    variant = "src" =>
        /\ Keys(unique_papers) \cap loaded = {}
        /\ pc # "idle" => Keys(unique_papers) \cap emittedPast = {}

\* a run that gets a seen id back from the upstream, and emits another
C1_Witness ==
    /\ InRun /\ pc = "output"
    /\ loaded \cap returned # {}
    /\ unique_papers # <<>>
    /\ emittedPast # {}

\* C2: a second run at the same now as a first run that has returned, on the
\* same upstream data, emits nothing: when the upstream hands it only records
\* it handed to the first run, and in particular when every query of the
\* first run was consumed, its output collection is empty; no id the upstream
\* returned to the first run is ever emitted by the second.
C2_IdempotentDedup ==
    (InRun /\ prev.valid /\ end_date = prev.end) =>
        /\ returned \subseteq prev.returned => unique_papers = <<>>
        /\ ~prev.failed => unique_papers = <<>>
        /\ Keys(unique_papers) \cap prev.returned = {}

\* the second run has been handed ids by the upstream and has skipped them
C2_Witness ==
    /\ InRun /\ pc = "output"
    /\ prev.valid /\ end_date = prev.end /\ ~prev.failed
    /\ prev.returned # {}
    /\ returned # {}
    /\ failed = {}
    /\ unique_papers = <<>>

\* C3: in both scripts the ids of the output collection are pairwise
\* distinct, and every id the upstream returned in the run that was not in
\* the loaded seen-ledger has exactly one record, however many categories
\* or pages returned it.
C3_CrossCategoryDedup ==
    /\ \A i, j \in 1..Len(unique_papers) :
          i # j => unique_papers[i].value.id # unique_papers[j].value.id
    /\ \A id \in returned \ loaded : Copies(id) = 1
    /\ \A j \in 1..Len(unique_papers) :
          unique_papers[j].key = unique_papers[j].value.id

\* every category was consumed without failure, so the cross-listed paper 1
\* was returned by each of them, and it is in the collection
C3_Witness ==
    /\ pc \in {"output", "legacy_output"}
    /\ failed = {}
    /\ Len(queried) = NumCats
    /\ NumCats >= 2
    /\ 1 \in Keys(unique_papers)
    /\ Len(unique_papers) >= 2

\* C4: a failing query does not end the run: the step in which a category
\* fails keeps every record collected so far (those the failing query had
\* yielded included) and goes on to the next category; the loop ends only
\* when every category has been queried, with the writes of the seen-ledger
\* and of the last-run marker still ahead and enabled.
C4_FailureIsolation ==
    /\ [][(variant = "src" /\ runs' = runs /\ failed' # failed) =>
            /\ pc' = (IF cat = NumCats THEN "output" ELSE "fetch")
            /\ cat' = cat + 1
            /\ outcome' = "none"
            /\ Len(unique_papers') >= Len(unique_papers)
            /\ SubSeq(unique_papers', 1, Len(unique_papers)) = unique_papers
            /\ returned' \ loaded = Keys(unique_papers')]_vars
    /\ [](InRun =>
            /\ pc \in {"output", "save_seen", "save_last"}
                  => queried = [c \in 1..NumCats |-> c]
            /\ pc = "fetch" => ENABLED (\E k \in 0..NumIds, o \in BOOLEAN :
                                           FetchCategory(k, TRUE, o))
            /\ pc = "output" => ENABLED WriteOutput
            /\ pc = "save_seen" => ENABLED SaveSeen
            /\ pc = "save_last" => ENABLED SaveLast)

\* the first category failed after it had yielded paper 2; the second
\* category was queried all the same and added paper 3
C4_Witness ==
    /\ InRun /\ pc = "save_last"
    /\ failed = {1}
    /\ Len(queried) = NumCats
    /\ {2, 3} \subseteq Keys(unique_papers)

\* C5: a record that a failed query left un-emitted in the run before is
\* inside the window of the next run (as far as the lookback of that run
\* reaches), so that the next run can still emit it.
C5_ResumeWithoutLoss ==
    (InRun /\ prev.valid) =>
        \A id \in prev.missed :
            PubOf(id) >= end_date - timedelta_days(days)
                => strftime_minute(start_date) <= strftime_minute(PubOf(id))

\* C7: the window start of a run is not earlier than the end of the run
\* before minus the lookback of days, and not later than the run's own now.
C7_WindowMonotonicity ==
    (InRun /\ prev.valid /\ end_date >= prev.end) =>
        /\ start_date >= prev.end - timedelta_days(days)
        /\ start_date <= end_date

\* a later run whose start is its own lookback limit, past the stored
\* latest_published_at
C7_Witness ==
    /\ InRun /\ prev.valid /\ end_date > prev.end
    /\ latest_published_at.some
    /\ start_date = end_date - timedelta_days(days)
    /\ start_date > latest_published_at.t

\* C8: a run of src that has returned has saved the seen-ledger it held and
\* has set the last-run marker to its own window end, whatever it found and
\* whichever categories failed.
C8_StateWritten ==
    (variant = "src" /\ pc = "idle" /\ outcome = "returned") =>
        /\ load_last_crawl_at(crawlFile) = LoadLastResult(FALSE, Some(end_date))
        /\ load_seen_state(seenFile).ids = seen_ids
        /\ load_seen_state(seenFile).latest = SavedLatest

\* a run in which every category failed and nothing was emitted has returned
C8_Witness ==
    /\ variant = "src" /\ pc = "idle" /\ outcome = "returned"
    /\ runs >= 1
    /\ failed = CATEGORIES_TO_FETCH
    /\ unique_papers = <<>>
    /\ prev.valid /\ prev.end = end_date

\* C9: after a run that emitted nothing, a run at a strictly later now has a
\* strictly later window start.
C9_WindowAdvances ==
    (InRun /\ prev.valid /\ prev.empty /\ end_date > prev.end) =>
        start_date > prev.start

\* C6: the window start of a run equals the reference algorithm on the loaded
\* state: base = latest_published_at if present, else last_run_at if present,
\* else now - days; start = max(base, now - days); start = now - 1 minute if
\* start >= now; end = now.  The two scenarios of the specification are
\* instances (2024-06-10T00:00Z is Base).
C6_WindowResolution ==
    (pc = "fetch" /\ days >= 1) =>
        LET last == load_last_crawl_at(crawlFile).at
            base == IF latest_published_at.some THEN latest_published_at.t
                    ELSE IF last.some THEN last.t
                    ELSE end_date - days * Day
            lower == end_date - days * Day
            clamped == IF base >= lower THEN base ELSE lower
            ref == IF clamped >= end_date THEN end_date - Minute ELSE clamped
        IN  /\ start_date = ref
            /\ end_date = clock
            /\ (end_date = Base /\ days = 3 /\ ~latest_published_at.some /\ ~last.some)
                  => start_date = Base - 3 * Day
            /\ (end_date = Base /\ days = 1
                  /\ latest_published_at = Some(Base - Day \div 2))
                  => start_date = Base - Day \div 2

\* the second scenario, with a last-run marker that holds another instant:
\* the marker is not consulted
C6_Witness ==
    /\ pc = "fetch" /\ end_date = Base /\ days = 1
    /\ latest_published_at = Some(Base - Day \div 2)
    /\ load_last_crawl_at(crawlFile).at = Some(Base - 20)
    /\ start_date = Base - Day \div 2

\* C10: whatever the state files hold, neither load_seen_state nor
\* load_last_crawl_at ends the run with an exception.
C10_LoadTolerance ==
    raisedIn \notin {"load_seen_state", "load_last_crawl_at"}

\* the value the configuration gives: the one under arxiv_paper_setting when
\* that key has a value, otherwise the one under crawler
ConfiguredDays(cfg) ==
    IF cfg.kind # "dict" THEN NoDays
    ELSE IF cfg.arxiv_paper_setting.t = "map"
              /\ cfg.arxiv_paper_setting.days_window.t # "none"
         THEN cfg.arxiv_paper_setting.days_window
    ELSE IF cfg.crawler.t = "map" THEN cfg.crawler.days_window
    ELSE NoDays

\* C11: whenever resolve_days_window returns, it returns the configured
\* days-window when that is a positive integer (written as a number or as
\* its text), and max(default, 1) in every other case (no value, a
\* non-integer value, an integer <= 0).
C11_ResolveDaysValue ==
    (call.done /\ ~call.raised) =>
        LET v == ConfiguredDays(config)
        IN  call.days = IF v.t \in {"int", "intstr"} /\ v.n >= 1 THEN v.n
                        ELSE Max(call.default_days, 1)

\* C12: for every shape of the configuration document resolve_days_window
\* returns an integer >= 1 and raises nothing.
C12_ResolveDaysNeverRaises ==
    call.done => (~call.raised /\ call.days >= 1)

\* C13: a failing write of the batch file ends the run with the exception,
\* and the run has then changed neither the seen-ledger nor the last-run
\* marker: no step taken before the batch file is dealt with touches them.
\* The writes come in the order batch file, seen-ledger, marker.  The
\* persisted seen-ledger holds an id of the current run's collection only
\* when the batch file of the run has been written with the collection.
C13_WriteFailureFatal ==
    /\ [][variant = "src" =>
            /\ (pc = "output" /\ raisedIn' = "write_output") =>
                   (pc' = "idle" /\ outcome' = "raised")
            /\ pc \in {"idle", "fetch", "output"} =>
                   (seenFile' = seenFile /\ crawlFile' = crawlFile)
            /\ outFiles' # outFiles => (pc = "output" /\ pc' \in {"save_seen", "idle"})
            /\ seenFile' # seenFile => (pc = "save_seen" /\ pc' \in {"save_last", "idle"})
            /\ crawlFile' # crawlFile => pc = "save_last"]_vars
    /\ []((variant = "src"
             /\ Keys(unique_papers) \cap load_seen_state(seenFile).ids # {}) =>
            /\ pc \in {"save_last", "idle"}
            /\ outFiles[ResolveOutputFile(output_file, end_date)]
                  = OutFile(DictValues(unique_papers)))

\* a run that had loaded a seen-ledger and collected new records failed to
\* write its batch file: the ledger on disk is the one it loaded
C13_Witness ==
    /\ variant = "src" /\ pc = "idle" /\ raisedIn = "write_output"
    /\ loaded # {}
    /\ unique_papers # <<>>
    /\ load_seen_state(seenFile).ids = loaded
    /\ Keys(unique_papers) \cap load_seen_state(seenFile).ids = {}

\* C14 as stated: for every persisted state and every days that reaches the
\* window computation, 0 and negative overrides included, end = now,
\* start < end and start >= now - days.
C14_WindowBounds ==
    pc = "fetch" =>
        /\ end_date = clock
        /\ start_date < end_date
        /\ start_date >= end_date - timedelta_days(days)

\* C14 amended: end = now and start < end always; start >= now - days when
\* days >= 1; with days <= 0 the window is the last minute before now.
C14_WindowBoundsAmended ==
    pc = "fetch" =>
        /\ end_date = clock
        /\ start_date < end_date
        /\ days >= 1 => start_date >= end_date - timedelta_days(days)
        /\ days <= 0 => start_date = end_date - timedelta_minutes(1)

\* a run with the override days = 0 on a ledger that holds a
\* latest_published_at long past
C14_Witness ==
    /\ pc = "fetch" /\ days = 0
    /\ latest_published_at.some
    /\ latest_published_at.t < end_date - Day
    /\ start_date = end_date - timedelta_minutes(1)

\* the latest publication instant among the papers of a non-empty set of ids
MaxPublished(ids) ==
    LET m == CHOOSE x \in ids : \A y \in ids : PubOf(x) >= PubOf(y)
    IN  PubOf(m)

\* C15: after every run that has returned, the persisted latest_published_at
\* is the maximum published instant over the records ever emitted (the ids
\* of the persisted seen-ledger), and it is not lower than the value the
\* run loaded.
C15_HighWaterMark ==
    (variant = "src" /\ pc = "idle" /\ outcome = "returned") =>
        LET ledger == load_seen_state(seenFile)
        IN  /\ ledger.ids # {} => ledger.latest = Some(MaxPublished(ledger.ids))
            /\ latest_published_at.some =>
                  (ledger.latest.some /\ ledger.latest.t >= latest_published_at.t)

\* C16: after every run that has returned, the persisted seen_ids are the
\* seen_ids the run loaded together with the ids of its output collection:
\* nothing loaded is dropped, and an id the run did not emit (skipped as
\* seen, or left behind by a failed query) is not added.
C16_LedgerGrowth ==
    (variant = "src" /\ pc = "idle" /\ outcome = "returned") =>
        LET ids == load_seen_state(seenFile).ids
        IN  /\ ids = loaded \cup Keys(unique_papers)
            /\ loaded \subseteq ids
            /\ (ids \ loaded) \cap (missed \ Keys(unique_papers)) = {}

\* a run that loaded a ledger, was handed a seen id again, emitted a new
\* one, and left a record of a failed query behind
C16_Witness ==
    /\ variant = "src" /\ pc = "idle" /\ outcome = "returned"
    /\ loaded # {}
    /\ returned \cap loaded # {}
    /\ unique_papers # <<>>
    /\ missed \ (loaded \cup Keys(unique_papers)) # {}

\* C17: a run writes a batch file if and only if its output collection is
\* not empty; the file is the one at the explicit output path when one is
\* given and otherwise the one named after the day of the run's end date,
\* no other file changes, and the file holds exactly the records whose ids
\* the upstream returned in this run and that were not in the loaded
\* seen-ledger, each once.
C17_OutputIffNonEmpty ==
    /\ [][variant = "src" =>
            /\ (pc = "output" /\ pc' = "save_seen") =>
                  LET path == IF output_file.some THEN output_file.t
                              ELSE strftime_day(end_date)
                  IN  IF unique_papers = <<>> THEN outFiles' = outFiles
                      ELSE /\ outFiles'[path].kind = "json"
                           /\ \A q \in OutPaths \ {path} :
                                 outFiles'[q] = outFiles[q]
                           /\ LET written == outFiles'[path].papers
                              IN  /\ {written[j].id : j \in 1..Len(written)}
                                        = returned \ loaded
                                  /\ Len(written) = Cardinality(returned \ loaded)
            /\ outFiles' # outFiles => (pc = "output" /\ unique_papers # <<>>)]_vars
    /\ [](InRun /\ pc \in {"save_seen", "save_last"} =>
             Keys(unique_papers) = returned \ loaded)

\* a run with an explicit output path that was handed seen ids and new ones
\* has written the new ones to that path
C17_Witness ==
    /\ InRun /\ pc = "save_seen"
    /\ output_file = Some(ExplicitPath)
    /\ returned \cap loaded # {}
    /\ outFiles[ExplicitPath] = OutFile(DictValues(unique_papers))
    /\ Len(unique_papers) >= 1

\* the ids of the records held by the batch files that exist
FiledIds ==
    UNION {{outFiles[q].papers[j].id : j \in 1..Len(outFiles[q].papers)} :
              q \in {x \in OutPaths : outFiles[x].kind = "json"}}

\* C18: after a sequence of runs that have all returned, every id of the
\* persisted seen-ledger that one of them emitted is in a batch file that
\* exists: no later run overwrites or removes what an earlier run wrote.
C18_EmittedNotLost ==
    (variant = "src" /\ pc = "idle" /\ outcome = "returned") =>
        (emittedPast \cap load_seen_state(seenFile).ids) \subseteq FiledIds

\* C19: in every run the categories are queried once each and in list order
\* (the queried ones are always 1, 2, ... up to the one before cat), a
\* queried category has failed or has handed over every record of its
\* query, the loop is left only for the stage of the writes and with every
\* category queried; and, every query ending, a run under way comes to its
\* end.
C19_SequentialTerminating ==
    /\ [][(variant = "src" /\ pc = "fetch") =>
            /\ queried' # queried => (queried' = Append(queried, cat) /\ cat' = cat + 1)
            /\ pc' # "fetch" => (pc' = "output" /\ cat' = NumCats + 1)]_vars
    /\ [](InRun =>
            /\ queried = [c \in 1..(cat - 1) |-> c]
            /\ cat <= NumCats + 1
            /\ pc = "fetch" <=> cat <= NumCats
            /\ failed \subseteq 1..(cat - 1)
            /\ \A c \in 1..(cat - 1) :
                  \/ c \in failed
                  \/ Matches(c, strftime_minute(start_date),
                             strftime_minute(end_date), end_date) \subseteq returned)
    /\ (InRun ~> (variant = "src" /\ pc = "idle"))

\* every category has failed, and the run has come to the last write
C19_Witness ==
    /\ InRun /\ pc = "save_last"
    /\ failed = CATEGORIES_TO_FETCH
    /\ queried = [c \in 1..NumCats |-> c]

\* C20: a run that emits nothing writes no batch file, and when it has
\* returned the persisted seen_ids and latest_published_at are the ones it
\* loaded; what it has changed is updated_at of the seen-ledger and the
\* last-run marker, now the run's end.  The next run, when
\* latest_published_at is present, finds it unchanged and takes its start
\* from it (clamped to the lookback), whatever the last-run marker says.
C20_ZeroResultFrame ==
    /\ [][(InRun /\ unique_papers' = <<>>) => outFiles' = outFiles]_vars
    /\ []((variant = "src" /\ pc = "idle" /\ outcome = "returned"
              /\ unique_papers = <<>>) =>
            /\ load_seen_state(seenFile) = LoadSeenResult(FALSE, loaded, latest_published_at)
            /\ seenFile.updated_at.t = "str"
            /\ load_last_crawl_at(crawlFile) = LoadLastResult(FALSE, Some(end_date)))
    /\ []((InRun /\ prev.valid /\ prev.empty /\ prev.latest.some) =>
            /\ latest_published_at = prev.latest
            /\ LET kept == Max(prev.latest.t, end_date - days * Day)
               IN  start_date = IF kept >= end_date THEN end_date - Minute ELSE kept)

\* after an empty run a later run starts from the latest_published_at the
\* empty run had loaded, which is earlier than that run's end
C20_Witness ==
    /\ InRun /\ prev.valid /\ prev.empty /\ prev.latest.some
    /\ end_date > prev.end
    /\ prev.end > prev.latest.t
    /\ start_date = prev.latest.t
    /\ loaded # {}

====
